---- MODULE Spec2Model ----
(***************************************************************************)
(* Model of st2common/util/mongoescape.py (key escaping of documents) and  *)
(* of st2client/commands/resource.py (the generic resource commands).      *)
(***************************************************************************)
EXTENDS Integers, Sequences, FiniteSets, TLC

(***************************************************************************)
(* Bounds                                                                  *)
(***************************************************************************)
\* total number of key/value entries of an input document
MaxEntries == 2

(***************************************************************************)
(* mongoescape.py                                                          *)
(***************************************************************************)
\* the two fullwidth code points are written by their code point names
UNESCAPED == <<".", "$">>
ESCAPED == <<"U+FF0E", "U+FF04">>

\* zip(a, b): the sequence of pairs
Zip(a, b) == [i \in 1..(IF Len(a) < Len(b) THEN Len(a) ELSE Len(b)) |-> <<a[i], b[i]>>]

ESCAPE_TRANSLATION == Zip(UNESCAPED, ESCAPED)

\* variant: the unescaped characters paired in the wrong order
UNESCAPE_TRANSLATION_swapped == Zip(ESCAPED, <<"$", ".">>)

UNESCAPE_TRANSLATION == Zip(ESCAPED, UNESCAPED)

\* str.replace(old, new) for one-character old and new: keys are sequences of characters
Replace(key, old, new) == [i \in 1..Len(key) |-> IF key[i] = old THEN new ELSE key[i]]

\* lines 35-37: newkey = oldkey; for t_k, t_v in translation: newkey = newkey.replace(t_k, t_v)
RECURSIVE TranslateKey(_, _)
TranslateKey(key, translation) ==
  IF translation = <<>> THEN key
  ELSE TranslateKey(Replace(key, Head(translation)[1], Head(translation)[2]), Tail(translation))

\* values of a document: scalars, references to dict objects, lists of dict objects
ScalarV(n) == [t |-> "scalar", n |-> n, ids |-> <<>>]
DictV(o) == [t |-> "dict", n |-> o, ids |-> <<>>]
ListV(s) == [t |-> "list", n |-> 0, ids |-> s]

\* isinstance(value, dict)
IsDict(value) == value.t = "dict"

EmptyDict == [k \in {} |-> ScalarV(0)]

\* work_field[newkey] = value
SetItem(d, k, v) == [x \in (DOMAIN d) \cup {k} |-> IF x = k THEN v ELSE d[x]]

\* del work_field[oldkey]
DelItem(d, k) == [x \in (DOMAIN d) \ {k} |-> d[x]]

\* the keys the sample documents draw from
Keys == { <<"a">>, <<".">>, <<"U+FF0E">>, <<"$", ".">>, <<"U+FF04", ".">> }

Scalars == {1, 2}

Objs == 1..(MaxEntries + 1)

VARIABLES field, heap, nobj, orig, work_items, translation, pc,
          store, inv, events, instance, runExc, raised, printed

evars == <<field, heap, nobj, orig, work_items, translation, pc>>
cvars == <<store, inv, events, instance, runExc, raised, printed>>
vars == <<evars, cvars>>

\* the documents a decoder can build with at most n entries: object 1 is the root dict
RECURSIVE Docs(_)
Docs(n) ==
  IF n = 0 THEN { [h |-> [o \in Objs |-> EmptyDict], c |-> 1] }
  ELSE LET P == Docs(n - 1) IN
    P \cup { [h |-> [d.h EXCEPT ![o] = SetItem(d.h[o], k, ScalarV(s))], c |-> d.c] :
               <<d, o, k, s>> \in { q \in P \X Objs \X Keys \X Scalars :
                                     q[2] <= q[1].c /\ q[3] \notin DOMAIN q[1].h[q[2]] } }
      \cup { [h |-> [d.h EXCEPT ![o] = SetItem(d.h[o], k, DictV(d.c + 1))], c |-> d.c + 1] :
               <<d, o, k>> \in { q \in P \X Objs \X Keys :
                                     q[2] <= q[1].c /\ q[3] \notin DOMAIN q[1].h[q[2]] } }
      \cup { [h |-> [d.h EXCEPT ![o] = SetItem(d.h[o], k, ListV(<<d.c + 1>>))], c |-> d.c + 1] :
               <<d, o, k>> \in { q \in P \X Objs \X Keys :
                                     q[2] <= q[1].c /\ q[3] \notin DOMAIN q[1].h[q[2]] } }

\* all orders in which iteritems() may enumerate a dict: sequences of (key, value, dict) items
Items(h, o) ==
  LET d == h[o]
      n == Cardinality(DOMAIN d)
  IN { [i \in 1..n |-> [k |-> p[i], v |-> d[p[i]], f |-> o]] :
         p \in { q \in [1..n -> DOMAIN d] : \A i, j \in 1..n : i # j => q[i] # q[j] } }

\* _translate_chars lines 27-29 for the given translation
Begin(tr, next) ==
  IF ~IsDict(field)
  THEN /\ pc' = next
       /\ UNCHANGED <<work_items, translation>>
  ELSE \E w \in Items(heap, field.n) :
       /\ work_items' = w
       /\ translation' = tr
       /\ pc' = IF w = <<>> THEN next ELSE "loop_" \o next

escape_chars ==
  /\ pc = "input"
  /\ Begin(ESCAPE_TRANSLATION, "escaped")
  /\ UNCHANGED <<field, heap, nobj, orig>>

unescape_chars ==
  /\ pc = "escaped"
  /\ Begin(UNESCAPE_TRANSLATION, "done")
  /\ UNCHANGED <<field, heap, nobj, orig>>

\* variant: the value is stored under the new key and the old key is kept
Rekey_keep_old(d, oldkey, newkey, value) ==
  IF newkey # oldkey THEN SetItem(d, newkey, value) ELSE d

\* lines 38-40
Rekey(d, oldkey, newkey, value) ==
  IF newkey # oldkey THEN DelItem(SetItem(d, newkey, value), oldkey) ELSE d

\* lines 41-43: the values whose items are appended to work_items
Descend(value) == IsDict(value)

\* one iteration of the while loop, lines 30-43
translate_step(next) ==
  /\ pc = "loop_" \o next
  /\ work_items # <<>>
  /\ LET work_item == Head(work_items)
         oldkey == work_item.k
         value == work_item.v
         work_field == work_item.f
         newkey == TranslateKey(oldkey, translation)
     IN /\ heap' = [heap EXCEPT ![work_field] = Rekey(heap[work_field], oldkey, newkey, value)]
        /\ \E nested \in (IF Descend(value) THEN Items(heap', value.n) ELSE {<<>>}) :
             /\ work_items' = Tail(work_items) \o nested
             /\ pc' = IF work_items' = <<>> THEN next ELSE pc
  /\ UNCHANGED <<field, nobj, orig, translation>>

escape_step == translate_step("escaped")

unescape_step == translate_step("done")

NextEscape ==
  \/ escape_chars /\ UNCHANGED cvars
  \/ escape_step /\ UNCHANGED cvars
  \/ unescape_chars /\ UNCHANGED cvars
  \/ unescape_step /\ UNCHANGED cvars


(***************************************************************************)
(* resource.py                                                             *)
(***************************************************************************)
\* at most this many resources are held by the backend
MaxResources == 2

\* Python's None, wherever a string or an instance is expected
None == "None"
NoInst == [id |-> None, name |-> None]
NoExc == [type |-> None, msg |-> <<>>]

\* truth value of a string or None
Truthy(x) == x # None /\ x # ""

\* the backend's id space and the names and identifiers tried
Ids == <<"507f", "60aa", "7bcd">>
Names == {"alertA", "507f"}
Idents == {"alertA", "507f", "pack.alertA", "nonexistent"}
Tokens == {None, "", "tok"}
Packs == {None, "pack"}

\* the input files: missing, not JSON, or a serialized resource with or without an id
Files == { [exists |-> FALSE, json |-> FALSE, inst |-> NoInst],
           [exists |-> TRUE, json |-> FALSE, inst |-> NoInst] }
         \cup { [exists |-> TRUE, json |-> TRUE, inst |-> [id |-> None, name |-> n]] : n \in Names }
         \cup { [exists |-> TRUE, json |-> TRUE, inst |-> [id |-> i, name |-> "alertA"]] :
                  i \in {"", "507f", "60aa"} }

ListClasses == {"ResourceListCommand", "ContentPackResourceListCommand"}
GetClasses == {"ResourceGetCommand", "ContentPackResourceGetCommand"}
UpdateClasses == {"ResourceUpdateCommand", "ContentPackResourceUpdateCommand"}
DeleteClasses == {"ResourceDeleteCommand", "ContentPackResourceDeleteCommand"}

\* resource.get_display_name() of the resource type the commands are built for
DisplayName == "Rule"

\* the reference of a pack-scoped resource
Ref(r) == "pack." \o r.name

\* a call on the manager, with the token keyword it receives
Call(op, key, inst, kw) == [op |-> op, key |-> key, inst |-> inst, token |-> kw]

\* open(args.file), f.read() and the release of the file at the end of the with block
FileEvent(op) == [op |-> op, key |-> None, inst |-> NoInst, token |-> None]

\* the manager's lookups
get_by_name(st, name) ==
  IF \E r \in st : r.name = name THEN CHOOSE r \in st : r.name = name ELSE NoInst

get_by_id(st, id) ==
  IF \E r \in st : r.id = id THEN CHOOSE r \in st : r.id = id ELSE NoInst

get_by_ref_or_id(st, x) ==
  IF \E r \in st : Ref(r) = x \/ r.id = x
  THEN CHOOSE r \in st : Ref(r) = x \/ r.id = x ELSE NoInst

\* the id the backend assigns next: the first one not in use
NewId(st) == Ids[CHOOSE i \in 1..Len(Ids) :
                   /\ \A r \in st : r.id # Ids[i]
                   /\ \A j \in 1..(i - 1) : \E r \in st : r.id = Ids[j]]

\* the manager's create: the backend assigns the id
manager_create(st, inst) == st \cup {[id |-> NewId(st), name |-> inst.name]}

manager_update(st, inst) == {r \in st : r.id # inst.id} \cup {inst}

manager_delete(st, inst) == st \ {inst}

\* lines 29-35: kwargs['token'] = ns.token when the token is truthy
add_auth_token_to_kwargs_from_cli(token) == IF Truthy(token) THEN token ELSE None

NotFoundByNameOrId(x) ==
  [type |-> "ResourceNotFoundError", msg |-> <<"Resource with id or name \"", x, "\" doesn't exist.">>]

NotFoundByRefOrId(x) ==
  [type |-> "ResourceNotFoundError", msg |-> <<"Resource with id or reference \"", x, "\" doesn't exist.">>]

\* variant: the id lookup is made first, the name lookup only when it yields nothing
get_resource_by_name_or_id_id_first(st, name_or_id, kw, idFails) ==
  LET ev1 == <<Call("get_by_id", name_or_id, NoInst, kw)>>
      byId == IF idFails THEN NoInst ELSE get_by_id(st, name_or_id)
      ev2 == ev1 \o <<Call("get_by_name", name_or_id, NoInst, kw)>>
      byName == get_by_name(st, name_or_id)
  IN IF byId # NoInst THEN [ev |-> ev1, inst |-> byId, exc |-> NoExc]
     ELSE IF byName # NoInst THEN [ev |-> ev2, inst |-> byName, exc |-> NoExc]
     ELSE [ev |-> ev2, inst |-> NoInst, exc |-> NotFoundByNameOrId(name_or_id)]

\* variant: the name lookup is repeated after the id lookup has yielded nothing
get_resource_by_name_or_id_retry(st, name_or_id, kw, idFails) ==
  LET ev1 == <<Call("get_by_name", name_or_id, NoInst, kw)>>
      byName == get_by_name(st, name_or_id)
      ev2 == ev1 \o <<Call("get_by_id", name_or_id, NoInst, kw)>>
      byId == IF idFails THEN NoInst ELSE get_by_id(st, name_or_id)
      ev3 == ev2 \o <<Call("get_by_name", name_or_id, NoInst, kw)>>
  IN IF byName # NoInst THEN [ev |-> ev1, inst |-> byName, exc |-> NoExc]
     ELSE IF byId # NoInst THEN [ev |-> ev2, inst |-> byId, exc |-> NoExc]
     ELSE [ev |-> ev3, inst |-> NoInst, exc |-> NotFoundByNameOrId(name_or_id)]

\* lines 120-131; idFails: the id lookup raises, which the bare except discards
get_resource_by_name_or_id(st, name_or_id, kw, idFails) ==
  LET ev1 == <<Call("get_by_name", name_or_id, NoInst, kw)>>
      byName == get_by_name(st, name_or_id)
      ev2 == ev1 \o <<Call("get_by_id", name_or_id, NoInst, kw)>>
      byId == IF idFails THEN NoInst ELSE get_by_id(st, name_or_id)
  IN IF byName # NoInst THEN [ev |-> ev1, inst |-> byName, exc |-> NoExc]
     ELSE IF byId # NoInst THEN [ev |-> ev2, inst |-> byId, exc |-> NoExc]
     ELSE [ev |-> ev2, inst |-> NoInst, exc |-> NotFoundByNameOrId(name_or_id)]

\* lines 133-140
get_resource_by_ref_or_id(st, ref_or_id, kw) ==
  LET ev1 == <<Call("get_by_ref_or_id", ref_or_id, NoInst, kw)>>
      found == get_by_ref_or_id(st, ref_or_id)
  IN IF found # NoInst THEN [ev |-> ev1, inst |-> found, exc |-> NoExc]
     ELSE [ev |-> ev1, inst |-> NoInst, exc |-> NotFoundByRefOrId(ref_or_id)]

\* get_resource: lines 117-118, overridden at lines 263-264 by ContentPackResourceGetCommand only
get_resource(cls, st, x, kw, idFails) ==
  IF cls = "ContentPackResourceGetCommand"
  THEN get_resource_by_ref_or_id(st, x, kw)
  ELSE get_resource_by_name_or_id(st, x, kw, idFails)

\* the outcome of run: the events in order, the local instance, the value returned,
\* the exception raised and the backend's resources afterwards
Outcome(ev, inst, ret, exc, st) == [ev |-> ev, inst |-> inst, ret |-> ret, exc |-> exc, st |-> st]

FileMissing == [type |-> "Exception", msg |-> <<"File \"", "file", "\" does not exist.">>]
NotJson == [type |-> "ValueError", msg |-> <<>>]
IdMismatch ==
  [type |-> "Exception",
   msg |-> <<"The value for the ", "rule", " id in the JSON file does not match the ID provided in the command line arguments.">>]

\* ResourceListCommand.run lines 181-183, ContentPackResourceListCommand.run lines 204-207
list_run(cls, st, pack, kw) ==
  IF cls = "ContentPackResourceListCommand"
  THEN Outcome(<<Call("get_all", pack, NoInst, None)>>, NoInst, NoInst, NoExc, st)
  ELSE Outcome(<<Call("get_all", None, NoInst, kw)>>, NoInst, NoInst, NoExc, st)

\* ResourceGetCommand.run lines 235-238
get_run(cls, st, x, kw, idFails) ==
  LET r == get_resource(cls, st, x, kw, idFails)
  IN Outcome(r.ev, r.inst, r.inst, r.exc, st)

\* variant: the backend call is issued first and the file read afterwards
WithFile_call_first(body) == body \o <<FileEvent("open"), FileEvent("read"), FileEvent("close")>>

\* with open(args.file, 'r') as f: f.read() ... : the events of the block
WithFile(body) == <<FileEvent("open"), FileEvent("read")>> \o body \o <<FileEvent("close")>>

\* ResourceCreateCommand.run lines 278-285
create_run(st, file, kw) ==
  IF ~file.exists THEN Outcome(<<>>, NoInst, NoInst, FileMissing, st)
  ELSE IF ~file.json THEN Outcome(WithFile(<<>>), NoInst, NoInst, NotJson, st)
  ELSE Outcome(WithFile(<<Call("create", None, file.inst, kw)>>), file.inst,
               [id |-> NewId(st), name |-> file.inst.name], NoExc,
               manager_create(st, file.inst))

\* variant: the id of the file is never compared with the resolved id
Reconcile_no_check(modified, existing) ==
  IF ~Truthy(modified.id)
  THEN [inst |-> [modified EXCEPT !.id = existing.id], exc |-> NoExc]
  ELSE [inst |-> modified, exc |-> NoExc]

\* variant: the resolved id is not copied onto an instance without id
Reconcile_no_copy(modified, existing) ==
  IF ~Truthy(modified.id)
  THEN [inst |-> modified, exc |-> NoExc]
  ELSE IF modified.id # existing.id THEN [inst |-> modified, exc |-> IdMismatch]
  ELSE [inst |-> modified, exc |-> NoExc]

\* lines 324-331
Reconcile(modified, existing) ==
  IF ~Truthy(modified.id)
  THEN [inst |-> [modified EXCEPT !.id = existing.id], exc |-> NoExc]
  ELSE IF modified.id # existing.id THEN [inst |-> modified, exc |-> IdMismatch]
  ELSE [inst |-> modified, exc |-> NoExc]

\* ResourceUpdateCommand.run lines 313-332
update_run(cls, st, x, file, kw, idFails) ==
  IF ~file.exists THEN Outcome(<<>>, NoInst, NoInst, FileMissing, st)
  ELSE LET r == get_resource(cls, st, x, kw, idFails) IN
    IF r.exc # NoExc THEN Outcome(r.ev, NoInst, NoInst, r.exc, st)
    ELSE IF ~file.json THEN Outcome(r.ev \o WithFile(<<>>), r.inst, NoInst, NotJson, st)
    ELSE LET m == Reconcile(file.inst, r.inst) IN
      IF m.exc # NoExc THEN Outcome(r.ev \o WithFile(<<>>), r.inst, NoInst, m.exc, st)
      ELSE Outcome(r.ev \o WithFile(<<Call("update", None, m.inst, kw)>>), r.inst, m.inst, NoExc,
                   manager_update(st, m.inst))

\* ResourceDeleteCommand.run lines 361-365
delete_run(cls, st, x, kw, idFails) ==
  LET r == get_resource(cls, st, x, kw, idFails) IN
    IF r.exc # NoExc THEN Outcome(r.ev, NoInst, NoInst, r.exc, st)
    ELSE Outcome(r.ev \o <<Call("delete", None, r.inst, kw)>>, r.inst, NoInst, NoExc,
                 manager_delete(st, r.inst))

\* print_not_found lines 113-115: the text handed to print, which adds a line end
print_not_found(name) == <<DisplayName, " \"", name, "\" is not found.\n", "\n">>

\* print_output(..., table.X, ...): the renderer is outside this module
print_output(shape) == <<"print_output", shape>>

\* variant: ResourceNotFoundError is not caught
run_and_print_no_catch(r, x, shape) ==
  IF r.exc = NoExc THEN [printed |-> IF shape = None THEN <<>> ELSE print_output(shape), exc |-> NoExc]
  ELSE [printed |-> <<>>, exc |-> r.exc]

\* run_and_print of Get (lines 240-248) and Delete (lines 367-372): the not-found
\* error of run becomes the printed message; Delete prints nothing on success
run_and_print_catching(r, x, shape) ==
  IF r.exc = NoExc THEN [printed |-> IF shape = None THEN <<>> ELSE print_output(shape), exc |-> NoExc]
  ELSE IF r.exc.type = "ResourceNotFoundError" THEN [printed |-> print_not_found(x), exc |-> NoExc]
  ELSE [printed |-> <<>>, exc |-> r.exc]

\* run_and_print of List (185-189), Create (287-290) and Update (334-337)
run_and_print_plain(r, shape) ==
  IF r.exc = NoExc THEN [printed |-> print_output(shape), exc |-> NoExc]
  ELSE [printed |-> <<>>, exc |-> r.exc]

Idle == [cmd |-> None, token |-> None, ident |-> None, pack |-> None,
         file |-> [exists |-> FALSE, json |-> FALSE, inst |-> NoInst], idFails |-> FALSE, pre |-> {}]

\* the state left by one invocation of run_and_print: r is the outcome of the run it
\* calls, o its own
Finish(i, r, o) ==
  /\ inv' = i
  /\ events' = r.ev
  /\ instance' = r.inst
  /\ runExc' = r.exc
  /\ store' = r.st
  /\ raised' = o.exc
  /\ printed' = o.printed
  /\ UNCHANGED evars

list(cls) ==
  \E token \in Tokens, pack \in Packs :
    LET kw == add_auth_token_to_kwargs_from_cli(token)
        r == list_run(cls, store, IF cls = "ContentPackResourceListCommand" THEN pack ELSE None, kw)
    IN Finish([Idle EXCEPT !.cmd = cls, !.token = token, !.pre = store,
                           !.pack = IF cls = "ContentPackResourceListCommand" THEN pack ELSE None],
              r, run_and_print_plain(r, "MultiColumnTable"))

get(cls) ==
  \E token \in Tokens, x \in Idents, idFails \in BOOLEAN :
    LET kw == add_auth_token_to_kwargs_from_cli(token)
        r == get_run(cls, store, x, kw, idFails)
    IN Finish([Idle EXCEPT !.cmd = cls, !.token = token, !.ident = x,
                           !.idFails = idFails, !.pre = store],
              r, run_and_print_catching(r, x, "PropertyValueTable"))

\* the backend is explored up to MaxResources resources with distinct names
create ==
  \E token \in Tokens, file \in Files :
    LET kw == add_auth_token_to_kwargs_from_cli(token)
        r == create_run(store, file, kw)
    IN /\ r.exc = NoExc => Cardinality(store) < MaxResources /\ \A q \in store : q.name # file.inst.name
       /\ Finish([Idle EXCEPT !.cmd = "ResourceCreateCommand", !.token = token,
                              !.file = file, !.pre = store],
                 r, run_and_print_plain(r, "PropertyValueTable"))

update(cls) ==
  \E token \in Tokens, x \in Idents, file \in Files, idFails \in BOOLEAN :
    LET kw == add_auth_token_to_kwargs_from_cli(token)
        r == update_run(cls, store, x, file, kw, idFails)
    IN /\ \A p, q \in r.st : p.name = q.name => p = q
       /\ Finish([Idle EXCEPT !.cmd = cls, !.token = token, !.ident = x,
                              !.file = file, !.idFails = idFails, !.pre = store],
                 r, run_and_print_plain(r, "PropertyValueTable"))

delete(cls) ==
  \E token \in Tokens, x \in Idents, idFails \in BOOLEAN :
    LET kw == add_auth_token_to_kwargs_from_cli(token)
        r == delete_run(cls, store, x, kw, idFails)
    IN Finish([Idle EXCEPT !.cmd = cls, !.token = token, !.ident = x,
                           !.idFails = idFails, !.pre = store],
              r, run_and_print_catching(r, x, None))

InitCommands ==
  /\ store = {}
  /\ inv = Idle
  /\ events = <<>>
  /\ instance = NoInst
  /\ runExc = NoExc
  /\ raised = NoExc
  /\ printed = <<>>

InitDocument ==
  /\ heap = [o \in Objs |-> EmptyDict]
  /\ nobj = 1
  /\ field = DictV(1)
  /\ orig = heap
  /\ work_items = <<>>
  /\ translation = <<>>
  /\ pc = "input"

Init == InitCommands /\ InitDocument

\* the argument of escape_chars: any document of at most MaxEntries entries, or a scalar
InitEscape ==
  /\ \E d \in Docs(MaxEntries) : heap = d.h /\ nobj = d.c
  /\ field \in {DictV(1)} \cup {ScalarV(s) : s \in Scalars}
  /\ field.t = "scalar" => nobj = 1 /\ heap[1] = EmptyDict
  /\ orig = heap
  /\ work_items = <<>>
  /\ translation = <<>>
  /\ pc = "input"
  /\ InitCommands

Next ==
  \/ \E cls \in ListClasses : list(cls)
  \/ \E cls \in GetClasses : get(cls)
  \/ create
  \/ \E cls \in UpdateClasses : update(cls)
  \/ \E cls \in DeleteClasses : delete(cls)

Spec == Init /\ [][Next]_vars

SpecEscape == InitEscape /\ [][NextEscape]_vars


(***************************************************************************)
(* Properties of escape_chars / unescape_chars                             *)
(***************************************************************************)
RECURSIVE Closure(_, _)
Closure(h, S) ==
  LET N == S \cup { h[o][k].n : <<o, k>> \in { q \in S \X Keys :
                        q[2] \in DOMAIN h[q[1]] /\ IsDict(h[q[1]][q[2]]) } }
  IN IF N = S THEN S ELSE Closure(h, N)

\* the dict objects reachable from the root through dict values only
MapReach(h) == IF IsDict(field) THEN Closure(h, {field.n}) ELSE {}

Reserved(c) == c = "." \/ c = "$"
Fullwidth(c) == c = "U+FF0E" \/ c = "U+FF04"
HasReserved(key) == \E i \in 1..Len(key) : Reserved(key[i])
HasFullwidth(key) == \E i \in 1..Len(key) : Fullwidth(key[i])

\* the 1:1 substitution the specification asks for
Substituted(key) ==
  [i \in 1..Len(key) |-> IF key[i] = "." THEN "U+FF0E" ELSE IF key[i] = "$" THEN "U+FF04" ELSE key[i]]

\* no key of a mapping-reachable mapping of the input holds an escape substitute
NoFullwidthKeys == \A o \in MapReach(orig) : \A k \in DOMAIN orig[o] : ~HasFullwidth(k)

\* C1 as stated: unescape_chars(escape_chars(D)) has, in every mapping reachable
\* through mapping nesting, the key set and the key-to-value assignments of D,
\* for documents with arbitrary string keys.
C1_RoundTripAllKeys ==
  pc = "done" => \A o \in MapReach(orig) : heap[o] = orig[o]

\* C1 amended: the round trip restores every mapping-reachable mapping of D
\* when no key of those mappings contains U+FF0E or U+FF04.
C1_RoundTrip ==
  (pc = "done" /\ NoFullwidthKeys) => \A o \in MapReach(orig) : heap[o] = orig[o]

C1_Witness ==
  /\ pc = "done"
  /\ NoFullwidthKeys
  /\ \E o \in MapReach(orig) \ {1} : \E k \in DOMAIN orig[o] : HasReserved(k)
  /\ \E k \in DOMAIN orig[1] : HasReserved(k)
  /\ heap = orig

\* C2: after escape_chars, every mapping reachable from the root through mapping
\* values has exactly the 1:1 substituted keys of the input mapping and none of the
\* keys that contained '.' or '$'; every other mapping (an element of a sequence,
\* and what lies below it) is untouched.
C2_EscapeKeys ==
  pc = "escaped" =>
    /\ \A o \in MapReach(orig) :
         /\ DOMAIN heap[o] = { Substituted(k) : k \in DOMAIN orig[o] }
         /\ \A k \in DOMAIN orig[o] : HasReserved(k) => k \notin DOMAIN heap[o]
    /\ \A o \in (1..nobj) \ MapReach(orig) : heap[o] = orig[o]

C2_Witness ==
  /\ pc = "escaped"
  /\ \E o \in MapReach(orig) : \E k \in DOMAIN orig[o] :
        HasReserved(k) /\ k \notin DOMAIN heap[o] /\ Substituted(k) \in DOMAIN heap[o]
  /\ \E o \in (1..nobj) \ MapReach(orig) : \E k \in DOMAIN heap[o] : HasReserved(k)

(***************************************************************************)
(* Properties of the resource commands                                     *)
(***************************************************************************)
ManagerOps == {"get_all", "get_by_name", "get_by_id", "get_by_ref_or_id", "create", "update", "delete"}
LookupOps == {"get_by_name", "get_by_id", "get_by_ref_or_id"}
ActOps == {"get_all", "create", "update", "delete"}
PackScoped == {"ContentPackResourceGetCommand", "ContentPackResourceUpdateCommand",
               "ContentPackResourceDeleteCommand"}

IsCall(e) == e.op \in ManagerOps
IsLookup(e) == e.op \in LookupOps
IsAct(e) == e.op \in ActOps
Calls == SelectSeq(events, IsCall)
Lookups == SelectSeq(events, IsLookup)
Acts == SelectSeq(events, IsAct)
Positions(op) == { i \in 1..Len(events) : events[i].op = op }
FileRead == inv.file.exists /\ inv.file.json

\* an update whose file names another id than the resolved resource has
UpdateMismatchCase ==
  /\ inv.cmd \in UpdateClasses
  /\ FileRead
  /\ instance # NoInst
  /\ Truthy(inv.file.inst.id)
  /\ inv.file.inst.id # instance.id

\* C3 as stated: on an id mismatch the update fails with the mismatch error and
\* performs no backend call at all.
C3_NoBackendCall ==
  UpdateMismatchCase => runExc = IdMismatch /\ Calls = <<>>

\* C3 amended: on an id mismatch the update fails with the mismatch error and issues
\* no update call; the only backend calls are the resolution lookups made before
\* the file is read, and the backend's resources are unchanged.
C3_NoUpdateCall ==
  UpdateMismatchCase =>
    /\ runExc = IdMismatch
    /\ raised = IdMismatch
    /\ Positions("update") = {}
    /\ Calls = Lookups
    /\ store = inv.pre

C3_Witness == UpdateMismatchCase /\ runExc = IdMismatch /\ Len(Calls) = 2

\* C4: the pack-scoped Get, Update and Delete commands resolve with get_by_ref_or_id
\* only and never call get_by_name or get_by_id.
C4_PackScopedRefOrId ==
  inv.cmd \in PackScoped =>
    /\ Positions("get_by_name") = {}
    /\ Positions("get_by_id") = {}

\* C5 as stated: in Create and Update every backend call is issued after the file
\* has been opened, read and released.
C5_FileReleasedBeforeCalls ==
  inv.cmd \in {"ResourceCreateCommand"} \cup UpdateClasses =>
    \A i \in 1..Len(events) : IsCall(events[i]) =>
      \E j, k, l \in 1..(i - 1) :
        j < k /\ k < l /\ events[j].op = "open" /\ events[k].op = "read" /\ events[l].op = "close"

\* C5 amended: in Create and Update the acting call (create, update) is issued after
\* the file has been opened and fully read and before it is released; the
\* resolution lookups of Update are issued before the file is opened.
C5_FileReadBeforeAct ==
  inv.cmd \in {"ResourceCreateCommand"} \cup UpdateClasses =>
    /\ \A i \in 1..Len(events) : IsAct(events[i]) =>
         /\ \E j, k \in 1..(i - 1) : j < k /\ events[j].op = "open" /\ events[k].op = "read"
         /\ \A l \in Positions("close") : i < l
         /\ Positions("close") # {}
    /\ \A i \in 1..Len(events) : IsLookup(events[i]) => \A j \in Positions("open") : i < j

C5_Witness ==
  /\ inv.cmd \in UpdateClasses
  /\ Positions("update") # {}
  /\ Lookups # <<>>

\* C6 as stated: an invocation issues at most two backend calls, resolve then act.
C6_AtMostTwoCalls ==
  inv.cmd # None =>
    /\ Len(Calls) <= 2
    /\ Calls = Lookups \o Acts

\* C6 amended: an invocation issues at most three backend calls: at most two
\* resolution lookups (the name lookup, then the id lookup) followed by at most one
\* acting call.
C6_AtMostThreeCalls ==
  inv.cmd # None =>
    /\ Len(Calls) <= 3
    /\ Len(Lookups) <= 2
    /\ Len(Acts) <= 1
    /\ Calls = Lookups \o Acts

C6_Witness ==
  /\ inv.cmd \in DeleteClasses
  /\ Len(Calls) = 3
  /\ Calls[3].op = "delete"

\* the invocations of the plain commands that resolve by name or id
NameOrIdCase ==
  /\ inv.cmd \in {"ResourceGetCommand", "ResourceUpdateCommand", "ResourceDeleteCommand"}
  /\ inv.cmd \in UpdateClasses => inv.file.exists

Named == \E r \in inv.pre : r.name = inv.ident
IdFound == ~inv.idFails /\ \E r \in inv.pre : r.id = inv.ident
Kw == IF Truthy(inv.token) THEN inv.token ELSE None

\* the order of the lookups and the outcome of the resolution
C7_Lookups ==
  /\ Lookups # <<>>
  /\ Lookups[1] = Call("get_by_name", inv.ident, NoInst, Kw)
  /\ Named => Len(Lookups) = 1
  /\ ~Named => Len(Lookups) = 2 /\ Lookups[2] = Call("get_by_id", inv.ident, NoInst, Kw)
  /\ (~Named /\ ~IdFound) =>
       /\ runExc.type = "ResourceNotFoundError"
       /\ \E i \in 1..Len(runExc.msg) : runExc.msg[i] = inv.ident
       /\ instance = NoInst
       /\ Acts = <<>>
  /\ (Named \/ IdFound) =>
       /\ runExc.type # "ResourceNotFoundError"
       /\ instance \in inv.pre
       /\ instance.name = inv.ident \/ instance.id = inv.ident

\* C7 as stated: name lookup first, id lookup only after a miss, errors of the id
\* lookup discarded, ResourceNotFoundError with the identifier when both miss, and
\* a resource is resolved to the same instance by its name and by its id.
C7_NameThenIdSameInstance ==
  NameOrIdCase =>
    /\ C7_Lookups
    /\ \A r \in inv.pre :
         /\ inv.ident = r.name => instance = r
         /\ (inv.ident = r.id /\ ~inv.idFails) => instance = r

\* C7 amended: as stated, except that an identifier that is the id of a resource
\* resolves to that resource only when no resource is named by that string and the
\* id lookup does not fail: the name lookup comes first and its match is returned.
C7_NameThenId ==
  NameOrIdCase =>
    /\ C7_Lookups
    /\ \A r \in inv.pre :
         /\ inv.ident = r.name => instance = r
         /\ (inv.ident = r.id /\ ~inv.idFails /\ ~Named) => instance = r
         /\ (inv.ident = r.id /\ Named) => instance.name = inv.ident

C7_Witness ==
  /\ NameOrIdCase
  /\ ~Named
  /\ IdFound
  /\ Len(Lookups) = 2
  /\ instance.id = inv.ident
  /\ \E r \in inv.pre : r.name = "alertA" /\ r.id = inv.ident

\* Get or Delete with an identifier that matches nothing
NoMatchCase ==
  /\ inv.cmd \in GetClasses \cup DeleteClasses
  /\ \A r \in inv.pre : r.name # inv.ident /\ r.id # inv.ident
  /\ inv.cmd \in PackScoped => \A r \in inv.pre : Ref(r) # inv.ident

\* C8: for Get and Delete with an identifier that matches nothing, run raises
\* ResourceNotFoundError, and run_and_print prints '<display name> "<identifier>" is
\* not found.' and returns without raising and without a delete call.
C8_NotFoundPrinted ==
  NoMatchCase =>
    /\ runExc.type = "ResourceNotFoundError"
    /\ raised = NoExc
    /\ printed = <<"Rule", " \"", inv.ident, "\" is not found.\n", "\n">>
    /\ Positions("delete") = {}
    /\ store = inv.pre

C8_Witness ==
  /\ NoMatchCase
  /\ inv.cmd \in DeleteClasses
  /\ inv.pre # {}
  /\ inv.ident = "nonexistent"
  /\ printed # <<>>

\* an update whose file carries no id, for a resource that was resolved
UpdateNoIdCase ==
  /\ inv.cmd \in UpdateClasses
  /\ FileRead
  /\ ~Truthy(inv.file.inst.id)
  /\ instance # NoInst

\* C9: an update whose file carries no id (absent or empty) submits to
\* manager.update exactly one instance, with the id of the resolved resource.
C9_IdCopied ==
  UpdateNoIdCase =>
    /\ Cardinality(Positions("update")) = 1
    /\ \A i \in Positions("update") :
         /\ events[i].inst.id = instance.id
         /\ events[i].inst.name = inv.file.inst.name
    /\ instance \in inv.pre

C9_Witness ==
  /\ UpdateNoIdCase
  /\ inv.file.inst.id = ""
  /\ \E i \in Positions("update") : events[i].inst.id = "507f"

\* C10: when the token argument is non-empty, every backend call of the invocation
\* receives it, the get_all of the pack-scoped List included.
C10_TokenPassed ==
  Truthy(inv.token) => \A i \in 1..Len(events) : IsCall(events[i]) => events[i].token = inv.token

====
